---- MODULE Spec2Model ----
(***************************************************************************)
(* Model of the forseti-security crawler                                   *)
(* (google/cloud/security/crawler/resources.py): the resource registry,    *)
(* Resource.accept with its call_accept closure and visitor.dispatch, the  *)
(* child iterators, the ancestor stack accessors and the cached policy     *)
(* accessors.                                                              *)
(***************************************************************************)
EXTENDS Integers, Sequences, FiniteSets, TLC

\* ------------------------------------------------------------------ bounds
MaxProjects == 2
MaxFolders == 1
MaxSql == 1
MaxCalls == 3
MaxThreads == 2

\* Names the client hands out, in listing order.
ProjectIds == <<"A", "B", "C", "D">>
FolderIds == <<"f1", "f2", "f3">>
SqlNames == <<"s1", "s2", "s3">>
OrgName == "organizations/123"

\* ---------------------------------------------------------------- registry
Kinds ==
    {"organization", "folder", "project", "bucket", "object", "dataset",
     "appengineapp", "instance", "firewall", "cloudsqlinstance"}

\* A registry that declares the Organization's FolderIterator first.
ContainsFoldersFirst(kind) ==
    CASE kind = "organization" -> <<"FolderIterator", "ProjectIterator">>
      [] kind = "project" -> <<"CloudSqlIterator">>
      [] OTHER -> <<>>

\* FACTORIES[kind].attributes['contains']
Contains(kind) ==
    CASE kind = "organization" -> <<"ProjectIterator", "FolderIterator">>
      [] kind = "project" -> <<"CloudSqlIterator">>
      [] OTHER -> <<>>

\* Resource.__init__: self._leaf = len(contains) == 0
IsLeaf(kind) == Len(Contains(kind)) = 0

\* The registry kind each iterator routes its records through.
IterChildKind(it) ==
    CASE it = "ProjectIterator" -> "project"
      [] it = "FolderIterator" -> "folder"
      [] it = "CloudSqlIterator" -> "cloudsqlinstance"

\* The client listing operation each iterator calls.
IterOp(it) ==
    CASE it = "ProjectIterator" -> "iter_projects"
      [] it = "FolderIterator" -> "iter_folders"
      [] it = "CloudSqlIterator" -> "iter_cloudsqlinstances"

\* Whether the iterator's body is guarded by self.resource.enumerable().
IterGuarded(it) == it = "CloudSqlIterator"

\* An enumerable() that ignores the lifecycle state.
EnumerableAlways(d) == TRUE

\* Project.enumerable, on the raw record.
Enumerable(d) == d.lifecycleState \notin {"DELETE_REQUESTED"}

\* Python values of Resource._stack: None, or a list of resources.
PyNone == [isNone |-> TRUE, items |-> <<>>]
PyList(s) == [isNone |-> FALSE, items |-> s]

\* Resource instances are named by where they were yielded: the root is
\* <<>>, the p-th child of yielder y of invocation f is f \o <<y, p>>, and
\* the n-th accept call on instance i is invocation i \o <<n>>.
Root == <<>>
NoInst == <<0>>
ParentInv(i) == SubSeq(i, 1, Len(i) - 2)
InstOfInv(f) == SubSeq(f, 1, Len(f) - 1)
ParentInst(i) == InstOfInv(ParentInv(i))

VARIABLES
    projects,   \* client: the raw project records of the organization
    folders,    \* client: the raw folder records of the organization
    sqls,       \* client: the raw Cloud SQL records of every project
    failing,    \* client: the listing calls <<op, arg>> that raise
    started,    \* the caller has called root.accept(visitor, [])
    insts,      \* the Resource instances constructed so far
    kindOf,     \* instance -> registry kind
    data,       \* instance -> Resource._data
    stackOf,    \* instance -> Resource._stack
    visits,     \* instance -> number of visitor.visit calls
    inv,        \* accept invocation -> its frame and closure cells
    threads,    \* execution context -> call stack of accept invocations
    pending,    \* tasks handed to visitor.dispatch and not yet run
    listCalls,  \* <<invocation, iterator index>> whose listing was called
    attrs,      \* instance -> the __cached_* attributes set on it
    fetched,    \* instance -> accessor -> outcomes of its client calls
    lastCall,   \* the most recent policy accessor call and its result
    ncalls,     \* number of policy accessor calls made
    acalls,     \* caller thread -> the accessor call it is in the middle of
    lastKey,    \* the most recent key() call and its result
    visitLog    \* keys of the visited resources, in visit order

policyVars == <<attrs, fetched, lastCall, ncalls>>
restVars == <<policyVars, acalls, lastKey, visitLog>>

crawlVars ==
    <<projects, folders, sqls, failing, started, insts, kindOf, data,
      stackOf, visits, inv, threads, pending, listCalls>>


\* ------------------------------------------------------------ raw records
\* A key() of CloudSqlInstance that is not overridden.
KeyFieldNoSqlOverride(kind) ==
    CASE kind = "organization" -> "name"
      [] kind = "project" -> "projectId"
      [] kind = "dataset" -> "datasetId"
      [] OTHER -> "id"

\* Resource.key and its overrides: the field of the raw record it reads.
KeyField(kind) ==
    CASE kind = "organization" -> "name"
      [] kind = "project" -> "projectId"
      [] kind = "dataset" -> "datasetId"
      [] kind = "cloudsqlinstance" -> "name"
      [] OTHER -> "id"

Key(kind, d) == d[KeyField(kind)]

\* The result of a key() or __getitem__ call.
KeyError(k, d) == [cls |-> "KeyError", key |-> k, data |-> d]
KRaise(e) == [raised |-> TRUE, exc |-> e, val |-> ""]
KReturns(v) == [raised |-> FALSE, exc |-> KeyError("", <<>>), val |-> v]

\* A __getitem__ that lets the dict's own KeyError through.
GetItemBareKeyError(d, k) ==
    IF k \in DOMAIN d THEN KReturns(d[k]) ELSE KRaise(KeyError(k, <<>>))

\* Resource.__getitem__: KeyError('key: {}, data: {}'.format(key, data)).
GetItem(d, k) ==
    IF k \in DOMAIN d THEN KReturns(d[k]) ELSE KRaise(KeyError(k, d))

\* resource.key() on an instance of the kind with raw record d.
KeyCall(kind, d) == GetItem(d, KeyField(kind))

NoKey == [called |-> FALSE, inst |-> NoInst, res |-> KReturns("")]

\* The argument each iterator passes to its listing operation.
IterArg(it, kind, d) ==
    CASE it = "ProjectIterator" -> Key(kind, d)
      [] it = "FolderIterator" -> Key(kind, d)
      [] it = "CloudSqlIterator" -> d["projectId"]

\* What the client's listing operation returns when it does not raise.
ClientList(op) ==
    CASE op = "iter_projects" -> projects
      [] op = "iter_folders" -> folders
      [] op = "iter_cloudsqlinstances" -> sqls

ClientError(op, arg) == [cls |-> "ClientError", args |-> <<op, arg>>]
NoErr == [cls |-> "", args |-> <<>>]

\* ------------------------------------------------------------------ frames
\* One accept invocation: its arguments (self, stack), the loop variable
\* `resource` that call_accept closes over, the position of the two loops,
\* and how the invocation ended.
NewFrame(i, stk, how, boundTo) ==
    [self |-> i, stack |-> stk, resource |-> NoInst, y |-> 1, p |-> 0,
     status |-> "running", err |-> NoErr, via |-> how, madeFor |-> boundTo]

\* A call_accept that hands the child its parent's own chain.
ChildStackSameChain(stk, self) == stk

\* call_accept's argument `stack + [self]`: a new list.
ChildStack(stk, self) == Append(stk, self)

\* A crawl whose root is handed to its iterators without being visited.
VisitSkipsRoot(vis, i) == IF i = <<>> THEN vis ELSE [vis EXCEPT ![i] = @ + 1]

\* visitor.visit(self), as the number of visits the visitor has seen.
Visit(vis, i) == [vis EXCEPT ![i] = @ + 1]

Top(t) == threads[t][Len(threads[t])]
Running(t) == t \in DOMAIN threads /\ Len(threads[t]) > 0

\* The yielder the frame's outer loop is at, and its iterator's state.
YielderOf(f) == Contains(kindOf[inv[f].self])[inv[f].y]
AtYielder(f) == inv[f].y <= Len(Contains(kindOf[inv[f].self]))
OpOf(f) == IterOp(YielderOf(f))
ArgOf(f) == IterArg(YielderOf(f), kindOf[inv[f].self], data[inv[f].self])
\* `if self.resource.enumerable():` around the listing loop
GuardedOut(f) == IterGuarded(YielderOf(f)) /\ ~Enumerable(data[inv[f].self])
\* The first next() of the generator calls the client.
CallsClient(f) == inv[f].p = 0 /\ ~GuardedOut(f)
ListCallsAfter(f) ==
    IF CallsClient(f) THEN listCalls \cup {<<f, inv[f].y>>} ELSE listCalls
HasNext(f) ==
    /\ AtYielder(f)
    /\ ~GuardedOut(f)
    /\ <<OpOf(f), ArgOf(f)>> \notin failing
    /\ inv[f].p < Len(ClientList(OpOf(f)))
NextChild(f) == f \o <<inv[f].y, inv[f].p + 1>>
NextKind(f) == IterChildKind(YielderOf(f))
NextData(f) == ClientList(OpOf(f))[inv[f].p + 1]

\* resource.accept(visitor, stk) entered on thread t, on an instance of
\* kind k: lines 82-84. With no yielder class to loop over (line 85) the
\* call returns at once. so, vi, iv, th are the instance and frame tables
\* the caller leaves.
AcceptEnter(t, i, k, stk, how, boundTo, so, vi, iv, th) ==
    LET g == Append(i, vi[i] + 1)
        fr == NewFrame(i, stk, how, boundTo)
        over == Len(Contains(k)) = 0
    IN
    /\ stackOf' = [so EXCEPT ![i] = PyList(stk)]
    /\ visits' = Visit(vi, i)
    /\ inv' = iv @@ (g :> IF over THEN [fr EXCEPT !.status = "returned"]
                                  ELSE fr)
    /\ threads' = IF t \in DOMAIN th
                  THEN [th EXCEPT ![t] = IF over THEN @ ELSE Append(@, g)]
                  ELSE th @@ (t :> IF over THEN <<>> ELSE <<g>>)

\* FACTORIES[kind].create_new(data) for the next record of the frame's
\* iterator, bound to the loop variable `resource`.
Construct(f) ==
    /\ insts' = insts \cup {NextChild(f)}
    /\ kindOf' = kindOf @@ (NextChild(f) :> NextKind(f))
    /\ data' = data @@ (NextChild(f) :> NextData(f))
    /\ listCalls' = ListCallsAfter(f)

Bound(f) ==
    [inv EXCEPT ![f].resource = NextChild(f), ![f].p = @ + 1]

world == <<projects, folders, sqls, failing>>

\* ------------------------------------------------- ancestor chain access
Raise(e) == [raised |-> TRUE, exc |-> e, val |-> <<>>]
Returns(v) == [raised |-> FALSE, exc |-> "", val |-> v]

\* Resource.stack: the explicit check of `self._stack is None`.
StackCall(i) ==
    IF stackOf[i].isNone
    THEN Raise("Exception: Stack not initialized yet")
    ELSE Returns(stackOf[i].items)

\* A parent() that swallows every error of the subscript.
ParentCallCatchAll(i) ==
    IF stackOf[i].isNone \/ Len(stackOf[i].items) = 0
    THEN Returns(NoInst)
    ELSE Returns(stackOf[i].items[Len(stackOf[i].items)])

\* Resource.parent: self._stack[-1] raises TypeError on None (not caught)
\* and IndexError on an empty list (caught: return None, here NoInst).
ParentCall(i) ==
    IF stackOf[i].isNone
    THEN Raise("TypeError: 'NoneType' object is not subscriptable")
    ELSE IF Len(stackOf[i].items) = 0
         THEN Returns(NoInst)
         ELSE Returns(stackOf[i].items[Len(stackOf[i].items)])

\* -------------------------------------------------------- policy accessors
Accessors ==
    {"getIamPolicy", "getGCSPolicy", "getCloudSQLPolicy", "getDatasetPolicy"}

\* What a policy accessor call gives its caller.
PRaise(e) == [raised |-> TRUE, exc |-> e, val |-> ""]
PReturns(v) == [raised |-> FALSE, exc |-> "", val |-> v]

\* The overrides decorated with @cached(name): the attribute the
\* decorator keeps the result in ("" when the method is not decorated).
CachedField(kind, acc) ==
    CASE acc = "getIamPolicy"
           /\ kind \in {"organization", "project", "bucket", "object"}
         -> "__cached_iam_policy"
      [] acc = "getGCSPolicy" /\ kind \in {"bucket", "object"}
         -> "__cached_gcs_policy"
      [] acc = "getDatasetPolicy" /\ kind = "dataset"
         -> "__cached_dataset_policy"
      [] OTHER -> ""

\* The client operation the decorated method calls.
ClientOp(kind, acc) ==
    CASE acc = "getIamPolicy" /\ kind = "organization"
         -> "get_organization_iam_policy"
      [] acc = "getIamPolicy" /\ kind = "project" -> "get_project_iam_policy"
      [] acc = "getIamPolicy" /\ kind = "bucket" -> "get_bucket_iam_policy"
      [] acc = "getIamPolicy" /\ kind = "object" -> "get_object_iam_policy"
      [] acc = "getGCSPolicy" /\ kind = "bucket" -> "get_bucket_gcs_policy"
      [] acc = "getGCSPolicy" /\ kind = "object" -> "get_object_gcs_policy"
      [] acc = "getDatasetPolicy" /\ kind = "dataset"
         -> "get_dataset_dataset_policy"
      [] OTHER -> ""

\* An accessor default that raises like Resource.res_type does.
DefaultPolicyRaises(kind, acc) == PRaise("NotImplementedError")

\* The accessors that call no client: Resource's four defaults return
\* None, Folder.getIamPolicy raises NotImplementedError.
DefaultPolicy(kind, acc) ==
    IF kind = "folder" /\ acc = "getIamPolicy"
    THEN PRaise("NotImplementedError")
    ELSE PReturns("None")

\* A wrapper that takes a cached None for "nothing cached yet".
CachedRefetchesNone(field, at, f) ==
    IF field \in DOMAIN at /\ at[field] # "None"
    THEN [attrs |-> at, res |-> PReturns(at[field]), called |-> FALSE]
    ELSE IF f.res.raised
         THEN [attrs |-> at, res |-> f.res, called |-> f.called]
         ELSE [attrs |-> [k \in DOMAIN at \cup {field} |->
                            IF k = field THEN f.res.val ELSE at[k]],
               res |-> f.res, called |-> f.called]

\* A wrapper that remembers a failed fetch as "no policy".
CachedStoresFailure(field, at, f) ==
    IF field \in DOMAIN at
    THEN [attrs |-> at, res |-> PReturns(at[field]), called |-> FALSE]
    ELSE IF f.res.raised
         THEN [attrs |-> at @@ (field :> "None"), res |-> f.res,
               called |-> f.called]
         ELSE [attrs |-> at @@ (field :> f.res.val), res |-> f.res,
               called |-> f.called]

\* cached(field_name)'s wrapper on an instance whose attributes are `at`;
\* f is what the decorated method does if it is called. hasattr: return
\* the attribute; else call f, and setattr only when f returned.
Cached(field, at, f) ==
    IF field \in DOMAIN at
    THEN [attrs |-> at, res |-> PReturns(at[field]), called |-> FALSE]
    ELSE IF f.res.raised
         THEN [attrs |-> at, res |-> f.res, called |-> f.called]
         ELSE [attrs |-> at @@ (field :> f.res.val), res |-> f.res,
               called |-> f.called]

\* The body of a decorated method on instance i when the client, if
\* called now, returns or raises `outcome`. DataSet.getDatasetPolicy
\* evaluates self.parent().key() before it calls the client.
ClientFetch(outcome) ==
    [res |-> IF outcome = "raise" THEN PRaise("ClientError")
                                  ELSE PReturns(outcome),
     called |-> TRUE]

Body(i, acc, outcome) ==
    IF kindOf[i] = "dataset" /\ ParentCall(i).raised
    THEN [res |-> PRaise(ParentCall(i).exc), called |-> FALSE]
    ELSE IF kindOf[i] = "dataset" /\ ParentCall(i).val = NoInst
    THEN [res |-> PRaise("AttributeError: 'NoneType' object has no attribute 'key'"),
          called |-> FALSE]
    ELSE ClientFetch(outcome)

\* instance.<acc>(client)
Accessor(i, acc, outcome) ==
    IF CachedField(kindOf[i], acc) # ""
    THEN Cached(CachedField(kindOf[i], acc), attrs[i], Body(i, acc, outcome))
    ELSE [attrs |-> attrs[i], res |-> DefaultPolicy(kindOf[i], acc),
          called |-> FALSE]

NoCall ==
    [inst |-> NoInst, acc |-> "", res |-> PReturns(""), called |-> FALSE,
     hadCache |-> FALSE]

\* ------------------------------------------------------------------- Init
\* The root Organization has been constructed (Organization.fetch) and no
\* accept call has been made. The client's data is any small tree: an
\* organization with projects, folders and Cloud SQL instances (the same
\* listing for every project), with at most one anomaly: one project that
\* is DELETE_REQUESTED, or one listing call that raises.
ProjectRecord(n, deleted) ==
    [projectId |-> ProjectIds[n],
     lifecycleState |-> IF n \in deleted THEN "DELETE_REQUESTED" ELSE "ACTIVE"]

ListingCalls(nP) ==
    {<<"iter_projects", OrgName>>, <<"iter_folders", OrgName>>}
        \cup {<<"iter_cloudsqlinstances", ProjectIds[n]>> : n \in 1..nP}

Init ==
    /\ \E nP \in 0..MaxProjects, nF \in 0..MaxFolders, nS \in 0..MaxSql :
         \E deleted \in {{}} \cup {{n} : n \in 1..nP} :
           /\ projects = [n \in 1..nP |-> ProjectRecord(n, deleted)]
           /\ folders = [n \in 1..nF |-> [id |-> FolderIds[n]]]
           /\ sqls = [n \in 1..nS |-> [name |-> SqlNames[n]]]
           /\ failing \in {{}} \cup (IF deleted = {}
                                     THEN {{c} : c \in ListingCalls(nP)}
                                     ELSE {})
    /\ started = FALSE
    /\ insts = {Root}
    /\ kindOf = (Root :> "organization")
    /\ data = (Root :> [name |-> OrgName])
    /\ stackOf = (Root :> PyNone)
    /\ visits = (Root :> 0)
    /\ inv = <<>>
    /\ threads = <<>>
    /\ pending = {}
    /\ listCalls = {}
    /\ attrs = <<>>
    /\ fetched = <<>>
    /\ lastCall = NoCall
    /\ ncalls = 0
    /\ acalls = <<>>
    /\ lastKey = NoKey
    /\ visitLog = <<>>

\* ---------------------------------------------------------------- actions
\* The caller starts the crawl: root.accept(visitor, []).
StartCrawl ==
    /\ ~started
    /\ started' = TRUE
    /\ AcceptEnter(Root, Root, kindOf[Root], <<>>, "caller", NoInst,
                   stackOf, visits, inv, threads)
    /\ UNCHANGED <<world, insts, kindOf, data, pending, listCalls>>

\* The inner loop gets a leaf child: call_accept() is called inline
\* (lines 87-91).
YieldInline(t) ==
    /\ Running(t)
    /\ LET f == Top(t) c == NextChild(f) IN
       /\ HasNext(f)
       /\ IsLeaf(NextKind(f))
       /\ Construct(f)
       /\ AcceptEnter(t, c, NextKind(f),
                      ChildStack(inv[f].stack, inv[f].self), "inline",
                      NoInst, stackOf @@ (c :> PyNone), visits @@ (c :> 0),
                      Bound(f), threads)
    /\ UNCHANGED <<world, started, pending>>

\* The inner loop gets a non-leaf child and visitor.dispatch(call_accept)
\* runs the task before it returns (lines 94-95): call_accept reads
\* `resource` right away.
YieldDispatchNow(t) ==
    /\ Running(t)
    /\ LET f == Top(t) c == NextChild(f) IN
       /\ HasNext(f)
       /\ ~IsLeaf(NextKind(f))
       /\ Construct(f)
       /\ AcceptEnter(t, c, NextKind(f),
                      ChildStack(inv[f].stack, inv[f].self), "dispatch",
                      c, stackOf @@ (c :> PyNone), visits @@ (c :> 0),
                      Bound(f), threads)
    /\ UNCHANGED <<world, started, pending>>

\* The inner loop gets a non-leaf child and visitor.dispatch(call_accept)
\* keeps the task for later: the loop goes on.
YieldDispatchLater(t) ==
    /\ Running(t)
    /\ LET f == Top(t) c == NextChild(f) IN
       /\ HasNext(f)
       /\ ~IsLeaf(NextKind(f))
       /\ Construct(f)
       /\ stackOf' = stackOf @@ (c :> PyNone)
       /\ visits' = visits @@ (c :> 0)
       /\ inv' = Bound(f)
       /\ pending' = pending \cup {[env |-> f, madeFor |-> c]}
    /\ UNCHANGED <<world, started, threads>>

\* A task kept by the dispatcher runs, in a context of its own:
\* call_accept reads the closure cell `resource` of the invocation that
\* made it as it is now, and calls accept on it with stack + [self].
RunTask(task) ==
    /\ task \in pending
    /\ pending' = pending \ {task}
    /\ LET f == task.env IN
       AcceptEnter(task.madeFor, inv[f].resource, kindOf[inv[f].resource],
                   ChildStack(inv[f].stack, inv[f].self), "dispatch",
                   task.madeFor, stackOf, visits, inv, threads)
    /\ UNCHANGED <<world, started, insts, kindOf, data, listCalls>>

\* The current iterator is done (its guard is false, or the listing has no
\* more records): the outer loop moves to the next yielder class, and
\* after the last one accept returns to its caller.
Exhaust(t) ==
    /\ Running(t)
    /\ LET f == Top(t)
           last == inv[f].y = Len(Contains(kindOf[inv[f].self]))
       IN
       /\ AtYielder(f)
       /\ ~HasNext(f)
       /\ <<OpOf(f), ArgOf(f)>> \in failing => ~CallsClient(f)
       /\ listCalls' = ListCallsAfter(f)
       /\ inv' = [inv EXCEPT ![f].y = @ + 1, ![f].p = 0,
                             ![f].status = IF last THEN "returned" ELSE @]
       /\ threads' = [threads EXCEPT
                        ![t] = IF last THEN SubSeq(@, 1, Len(@) - 1) ELSE @]
    /\ UNCHANGED <<world, started, insts, kindOf, data, stackOf, visits,
                   pending>>

\* The client's listing call raises: nothing in accept, call_accept or the
\* iterators catches it, so it leaves every frame of this call stack.
ListingRaises(t) ==
    /\ Running(t)
    /\ LET f == Top(t) IN
       /\ AtYielder(f)
       /\ CallsClient(f)
       /\ <<OpOf(f), ArgOf(f)>> \in failing
       /\ listCalls' = ListCallsAfter(f)
       /\ inv' = [g \in DOMAIN inv |->
                    IF \E k \in 1..Len(threads[t]) : threads[t][k] = g
                    THEN [inv[g] EXCEPT !.status = "raised",
                                        !.err = ClientError(OpOf(f), ArgOf(f))]
                    ELSE inv[g]]
       /\ threads' = [threads EXCEPT ![t] = <<>>]
    /\ UNCHANGED <<world, started, insts, kindOf, data, stackOf, visits,
                   pending>>

Next ==
    \/ StartCrawl /\ UNCHANGED restVars
    \/ \E t \in DOMAIN threads : YieldInline(t) /\ UNCHANGED restVars
    \/ \E t \in DOMAIN threads : YieldDispatchNow(t) /\ UNCHANGED restVars
    \/ \E t \in DOMAIN threads : YieldDispatchLater(t) /\ UNCHANGED restVars
    \/ \E task \in pending : RunTask(task) /\ UNCHANGED restVars
    \/ \E t \in DOMAIN threads : Exhaust(t) /\ UNCHANGED restVars
    \/ \E t \in DOMAIN threads : ListingRaises(t) /\ UNCHANGED restVars

vars == <<crawlVars, restVars>>

Spec == Init /\ [][Next]_vars

\* ------------------------------------------------------ crawl properties
\* Every context has come to rest and the dispatcher holds no task.
Quiescent ==
    /\ started
    /\ pending = {}
    /\ \A t \in DOMAIN threads : threads[t] = <<>>

NoneRaised == \A f \in DOMAIN inv : inv[f].status # "raised"
InvsOf(i) == {f \in DOMAIN inv : inv[f].self = i}
ChildrenOf(i) == {c \in insts : c # Root /\ ParentInst(c) = i}

\* C1: once all dispatched tasks have run in a crawl without client
\* errors, every resource instance the iterators yielded, and the root,
\* has been visited exactly once.
C1_VisitedExactlyOnce ==
    (Quiescent /\ NoneRaised) => \A i \in insts : visits[i] = 1

\* C2: pre-order. A resource that has been visited is the root or was
\* yielded by an iterator of a resource that has been visited already;
\* every step visits one resource, so the parent's visit came strictly
\* earlier, under every dispatch choice and interleaving.
C2_PreOrder ==
    \A c \in insts :
        (c # Root /\ visits[c] > 0) => visits[ParentInst(c)] > 0

\* A child has been visited by a task that ran after its parent's loop had
\* gone on, while a sibling of it is still unvisited.
C2_Witness ==
    \E c \in insts, d \in insts :
        /\ c # Root /\ d # Root /\ c # d
        /\ ParentInst(c) = Root /\ ParentInst(d) = Root
        /\ visits[c] > 0 /\ visits[d] = 0
        /\ \E f \in InvsOf(c) : inv[f].via = "dispatch"
        /\ \E g \in InvsOf(Root) : inv[g].resource # c

\* C3: the traversal of a resource without child-iterator kinds is only
\* ever run inline by its parent's loop, and the traversal of a resource
\* with child-iterator kinds (other than the root, which the caller
\* starts) is only ever run by a task handed to visitor.dispatch.
C3_InlineOrDispatch ==
    \A f \in DOMAIN inv :
        inv[f].self # Root =>
            IF IsLeaf(kindOf[inv[f].self])
            THEN inv[f].via = "inline"
            ELSE inv[f].via = "dispatch"

\* C4: a Project whose lifecycleState is DELETE_REQUESTED is not
\* enumerable; every accept call on it visits it, and none of its
\* iterators calls the client, no child is constructed from it and no
\* task is handed to dispatch for it.
C4_DeletedProjectNotEnumerated ==
    \A i \in insts :
        (kindOf[i] = "project" /\ data[i].lifecycleState = "DELETE_REQUESTED")
        => /\ ~Enumerable(data[i])
           /\ visits[i] = Cardinality(InvsOf(i))
           /\ \A c \in listCalls : InstOfInv(c[1]) # i
           /\ ChildrenOf(i) = {}
           /\ \A task \in pending : InstOfInv(task.env) # i

\* The traversal of a DELETE_REQUESTED project has returned while the
\* client does hold Cloud SQL instances, and an active project was
\* enumerated in the same crawl.
C4_Witness ==
    /\ Len(sqls) > 0
    /\ \E f \in DOMAIN inv :
        /\ kindOf[inv[f].self] = "project"
        /\ data[inv[f].self].lifecycleState = "DELETE_REQUESTED"
        /\ inv[f].status = "returned"
    /\ \E i \in insts : kindOf[i] = "project" /\ ChildrenOf(i) # {}

\* C7: on a resource no accept call has reached, stack() and parent() both
\* fail instead of returning a value (stack() with its explicit
\* 'Stack not initialized yet' exception, parent() with the TypeError of
\* subscripting the unset chain); once accept(visitor, ancestors) has run
\* on it, stack() is exactly the sequence passed in and parent() its last
\* element, or none when the sequence is empty.
C7_AncestorChainAccess ==
    /\ \A i \in insts :
        InvsOf(i) = {} =>
            /\ StackCall(i) = Raise("Exception: Stack not initialized yet")
            /\ ParentCall(i).raised
    /\ \A f \in DOMAIN inv :
        /\ StackCall(inv[f].self) = Returns(inv[f].stack)
        /\ ParentCall(inv[f].self) =
             IF inv[f].stack = <<>>
             THEN Returns(NoInst)
             ELSE Returns(inv[f].stack[Len(inv[f].stack)])

\* The root and a grandchild have been visited while a constructed
\* resource still waits for its task.
C7_Witness ==
    /\ \E f \in DOMAIN inv : Len(inv[f].stack) = 2
    /\ \E f \in DOMAIN inv : inv[f].stack = <<>>
    /\ \E i \in insts : InvsOf(i) = {}

\* C8: a listing error of one of r's iterators leaves r's own accept call
\* only and the sibling subtrees stay unaffected: when enumeration of one
\* project's Cloud SQL instances has failed and the crawl has come to
\* rest, every other project of the organization has been visited all the
\* same, however dispatch runs its tasks.
C8_FailureIsolation ==
    (Quiescent /\ \E f \in DOMAIN inv :
                    /\ inv[f].status = "raised"
                    /\ inv[f].err.args[1] = "iter_cloudsqlinstances")
    => \A n \in 1..Len(projects) :
           \E i \in insts :
               kindOf[i] = "project" /\ data[i] = projects[n] /\ visits[i] > 0

\* C9: the error that leaves the accept call whose iterator's listing
\* raised is a crawl error tagged with the resource's key and the
\* iterator's kind.
C9_TaggedCrawlError ==
    \A c \in listCalls :
        inv[c[1]].status = "raised" =>
            inv[c[1]].err =
                [cls |-> "CrawlError",
                 args |-> <<Key(kindOf[inv[c[1]].self], data[inv[c[1]].self]),
                            Contains(kindOf[inv[c[1]].self])[c[2]]>>]

\* ----------------------------------------------- policy accessor calls
\* What the client's policy operation does when it is called: it returns
\* a policy, or no policy (None), or raises; its data may change between
\* calls, so every call may do any of these.
PolicyValues == {"None", "p1", "p2"}
ClientOutcomes == PolicyValues \cup {"raise"}

X1 == <<1, 1, 1>>
X2 == <<1, 1, 2>>

\* Two resources of one kind, constructed by the registry from records
\* that hold their key, next to a project that has been visited as a
\* root. The two have not been visited yet, or were visited with the
\* empty chain, or with the project as their parent.
PolicyWorld ==
    /\ \E k \in Kinds,
          st \in {PyNone, PyList(<<>>), PyList(<<Root>>)} :
         /\ kindOf = (Root :> "project" @@ X1 :> k @@ X2 :> k)
         /\ data = (Root :> [projectId |-> "A", lifecycleState |-> "ACTIVE"]
                    @@ X1 :> (KeyField(k) :> "x1")
                    @@ X2 :> (KeyField(k) :> "x2"))
         /\ stackOf = (Root :> PyList(<<>>) @@ X1 :> st @@ X2 :> st)
         /\ visits = (Root :> 1 @@ X1 :> (IF st.isNone THEN 0 ELSE 1)
                      @@ X2 :> (IF st.isNone THEN 0 ELSE 1))
    /\ insts = {Root, X1, X2}
    /\ projects = <<>> /\ folders = <<>> /\ sqls = <<>> /\ failing = {}
    /\ started = TRUE
    /\ inv = <<>> /\ threads = <<>> /\ pending = {} /\ listCalls = {}
    /\ attrs = (X1 :> <<>> @@ X2 :> <<>>)
    /\ fetched = (X1 :> [a \in Accessors |-> <<>>]
                  @@ X2 :> [a \in Accessors |-> <<>>])
    /\ lastCall = NoCall
    /\ ncalls = 0
    /\ lastKey = NoKey
    /\ visitLog = <<>>

PolicyInit == PolicyWorld /\ acalls = <<>>

\* A caller (the visitor) calls instance.<acc>(client).
PolicyCall(i, acc, outcome) ==
    /\ ncalls < MaxCalls
    /\ LET r == Accessor(i, acc, outcome) IN
       /\ attrs' = [attrs EXCEPT ![i] = r.attrs]
       /\ fetched' = IF r.called
                     THEN [fetched EXCEPT ![i][acc] = Append(@, outcome)]
                     ELSE fetched
       /\ lastCall' =
            [inst |-> i, acc |-> acc, res |-> r.res, called |-> r.called,
             hadCache |-> CachedField(kindOf[i], acc) \in DOMAIN attrs[i]]
    /\ ncalls' = ncalls + 1
    /\ UNCHANGED <<crawlVars, acalls, lastKey, visitLog>>

PolicyNext ==
    \E i \in DOMAIN attrs, acc \in Accessors, outcome \in ClientOutcomes :
        PolicyCall(i, acc, outcome)

PolicySpec == PolicyInit /\ [][PolicyNext]_vars

\* ------------------------------------------------------ policy properties
RECURSIVE OKs(_)
OKs(h) ==
    IF h = <<>> THEN 0
    ELSE (IF h[1] = "raise" THEN 0 ELSE 1) + OKs(Tail(h))

RECURSIVE FirstOK(_)
FirstOK(h) ==
    IF h = <<>> THEN ""
    ELSE IF h[1] # "raise" THEN h[1] ELSE FirstOK(Tail(h))

\* C5: for every memoized accessor of every instance, in a run of
\* accessor calls that all succeed the client is called exactly once; the
\* cache holds the value of that one successful client call, None
\* included, whatever the client would return now, and every later call
\* returns it. Each (instance, accessor) pair is accounted for on its own.
C5_MemoizedOnce ==
    \A i \in DOMAIN attrs, acc \in Accessors :
        LET fld == CachedField(kindOf[i], acc)
            h == fetched[i][acc]
        IN fld # "" =>
            /\ OKs(h) <= 1
            /\ OKs(h) = Len(h) => Len(h) <= 1
            /\ fld \in DOMAIN attrs[i] <=> OKs(h) = 1
            /\ fld \in DOMAIN attrs[i] => attrs[i][fld] = FirstOK(h)
            /\ (lastCall.inst = i /\ lastCall.acc = acc /\ ~lastCall.res.raised)
               => /\ OKs(h) = 1
                  /\ lastCall.res = PReturns(FirstOK(h))
                  /\ lastCall.called <=> ~lastCall.hadCache

\* A second call of getIamPolicy on a Bucket has returned the cached "no
\* policy" without a client call, while its getGCSPolicy cache holds a
\* policy and the other Bucket's caches are empty.
C5_Witness ==
    /\ kindOf[X1] = "bucket"
    /\ fetched[X1]["getIamPolicy"] = <<"None">>
    /\ fetched[X1]["getGCSPolicy"] = <<"p1">>
    /\ lastCall.inst = X1 /\ lastCall.acc = "getIamPolicy"
    /\ lastCall.hadCache /\ lastCall.res = PReturns("None")
    /\ attrs[X2] = <<>>

\* C6: a client call that raises inside a memoized accessor reaches the
\* caller as that error and leaves the cache slot empty; a call that
\* finds the slot empty calls the client again, so the client is only
\* ever called after failures, and the slot holds the first success.
C6_FailureNotCached ==
    /\ \A i \in DOMAIN attrs, acc \in Accessors :
        LET fld == CachedField(kindOf[i], acc)
            h == fetched[i][acc]
        IN fld # "" =>
            /\ OKs(h) = 0 => fld \notin DOMAIN attrs[i]
            /\ \A n \in 1..Len(h) : n < Len(h) => h[n] = "raise"
            /\ OKs(h) > 0 => attrs[i][fld] = h[Len(h)]
    /\ (lastCall.acc # "" /\ CachedField(kindOf[lastCall.inst], lastCall.acc) # "")
       => LET h == fetched[lastCall.inst][lastCall.acc] IN
          /\ lastCall.called =>
                lastCall.res = IF h[Len(h)] = "raise"
                               THEN PRaise("ClientError")
                               ELSE PReturns(h[Len(h)])
          /\ (~lastCall.hadCache /\ ~Body(lastCall.inst, lastCall.acc, "None").called)
             => (lastCall.res.raised /\ ~lastCall.called)
          /\ (~lastCall.hadCache /\ Body(lastCall.inst, lastCall.acc, "None").called)
             => lastCall.called

\* After a fetch that raised, the next call on the same instance called
\* the client again and its result is the one cached.
C6_Witness ==
    \E i \in DOMAIN attrs :
        /\ fetched[i]["getIamPolicy"] = <<"raise", "p2">>
        /\ lastCall.inst = i /\ lastCall.acc = "getIamPolicy"
        /\ lastCall.called
        /\ attrs[i]["__cached_iam_policy"] = "p2"

\* C10 as claimed: an accessor of a capability the kind does not support
\* returns None, without raising and without a client call.
C10_UnsupportedReturnsNone ==
    (lastCall.acc # "" /\ ClientOp(kindOf[lastCall.inst], lastCall.acc) = "")
    => (lastCall.res = PReturns("None") /\ ~lastCall.called)

\* C10 as amended: an accessor of a capability the kind does not support
\* never calls the client; it returns None without raising, except
\* getIamPolicy on a Folder, which raises NotImplementedError.
C10_UnsupportedNoClient ==
    /\ \A i \in DOMAIN attrs, acc \in Accessors :
        ClientOp(kindOf[i], acc) = "" => fetched[i][acc] = <<>>
    /\ (lastCall.acc # "" /\ ClientOp(kindOf[lastCall.inst], lastCall.acc) = "")
       => /\ ~lastCall.called
          /\ lastCall.res =
               IF kindOf[lastCall.inst] = "folder" /\ lastCall.acc = "getIamPolicy"
               THEN PRaise("NotImplementedError")
               ELSE PReturns("None")

\* getIamPolicy has raised on a Folder after another unsupported accessor
\* was called on it.
C10_Witness ==
    /\ lastCall.acc = "getIamPolicy"
    /\ kindOf[lastCall.inst] = "folder"
    /\ lastCall.res.raised
    /\ ncalls > 1

\* ------------------------------------------------ construction and key()
\* Raw records as the client may hand them out: any subset of the fields
\* the key() methods read, each field with a value of its own.
RawFields == {"id", "name", "projectId", "datasetId"}
RawValue(f) ==
    CASE f = "id" -> "id-7"
      [] f = "name" -> "name-7"
      [] f = "projectId" -> "project-7"
      [] f = "datasetId" -> "dataset-7"
RawRecords == {[f \in S |-> RawValue(f)] : S \in SUBSET RawFields}

KeyInit ==
    /\ projects = <<>> /\ folders = <<>> /\ sqls = <<>> /\ failing = {}
    /\ started = FALSE
    /\ insts = {} /\ kindOf = <<>> /\ data = <<>>
    /\ stackOf = <<>> /\ visits = <<>>
    /\ inv = <<>> /\ threads = <<>> /\ pending = {} /\ listCalls = {}
    /\ attrs = <<>> /\ fetched = <<>> /\ lastCall = NoCall /\ ncalls = 0
    /\ acalls = <<>>
    /\ lastKey = NoKey
    /\ visitLog = <<>>

\* FACTORIES[kind].create_new(raw): cls(data, **attrs) runs
\* Resource.__init__, which stores the record and reads none of it.
CreateNew(kind, raw) ==
    /\ insts = {}
    /\ insts' = {X1}
    /\ kindOf' = (X1 :> kind)
    /\ data' = (X1 :> raw)
    /\ stackOf' = (X1 :> PyNone)
    /\ visits' = (X1 :> 0)
    /\ UNCHANGED <<world, started, inv, threads, pending, listCalls,
                   restVars>>

\* A caller calls instance.key().
CallKey(i) ==
    /\ lastKey' = [called |-> TRUE, inst |-> i,
                   res |-> KeyCall(kindOf[i], data[i])]
    /\ UNCHANGED <<crawlVars, policyVars, acalls, visitLog>>

\* A caller calls accept(visitor, []) on a resource of a kind without
\* iterators: the chain is attached, the resource visited, and accept
\* returns without reading the record.
AcceptLeaf(i) ==
    /\ IsLeaf(kindOf[i])
    /\ visits[i] = 0
    /\ AcceptEnter(Root, i, kindOf[i], <<>>, "caller", NoInst,
                   stackOf, visits, inv, threads)
    /\ UNCHANGED <<world, started, insts, kindOf, data, pending, listCalls,
                   restVars>>

KeyNext ==
    \/ \E kind \in Kinds, raw \in RawRecords : CreateNew(kind, raw)
    \/ \E i \in insts : CallKey(i)
    \/ \E i \in insts : AcceptLeaf(i)

KeySpec == KeyInit /\ [][KeyNext]_vars

\* C11 as claimed: key() returns the field `name` for Organization,
\* `projectId` for Project, `datasetId` for DataSet and `id` for every
\* other kind, CloudSqlInstance included.
C11_KeyFieldAsClaimed ==
    lastKey.called =>
        LET k == kindOf[lastKey.inst]
            d == data[lastKey.inst]
            f == CASE k = "organization" -> "name"
                   [] k = "project" -> "projectId"
                   [] k = "dataset" -> "datasetId"
                   [] OTHER -> "id"
        IN f \in DOMAIN d => lastKey.res = KReturns(d[f])

\* C11 as amended: key() returns the field `name` for Organization and
\* for CloudSqlInstance, `projectId` for Project, `datasetId` for DataSet
\* and `id` for every other kind, whatever other fields the record holds.
C11_KeyField ==
    lastKey.called =>
        LET k == kindOf[lastKey.inst]
            d == data[lastKey.inst]
            f == CASE k \in {"organization", "cloudsqlinstance"} -> "name"
                   [] k = "project" -> "projectId"
                   [] k = "dataset" -> "datasetId"
                   [] OTHER -> "id"
        IN f \in DOMAIN d => lastKey.res = KReturns(d[f])

\* key() of a CloudSqlInstance whose record holds both `id` and `name`
\* has returned the name.
C11_Witness ==
    /\ lastKey.called
    /\ kindOf[lastKey.inst] = "cloudsqlinstance"
    /\ {"id", "name"} \subseteq DOMAIN data[lastKey.inst]
    /\ lastKey.res.val = "name-7"

\* C12 as claimed: the registry refuses a raw record that lacks the
\* kind's primary-id field, so no resource lacking it exists, is yielded
\* or is visited.
C12_ConstructionRejectsMissingKey ==
    \A i \in insts : KeyField(kindOf[i]) \in DOMAIN data[i]

\* C12 as amended: the registry constructs a resource from any raw
\* record; it is key() that fails when the primary-id field is missing,
\* with a KeyError that names the field and holds the raw record, and
\* key() fails in no other case.
C12_KeyFailsNotConstruction ==
    lastKey.called =>
        LET k == kindOf[lastKey.inst]
            d == data[lastKey.inst]
        IN /\ lastKey.res.raised <=> KeyField(k) \notin DOMAIN d
           /\ lastKey.res.raised =>
                /\ lastKey.res.exc.cls = "KeyError"
                /\ lastKey.res.exc.key = KeyField(k)
                /\ lastKey.res.exc.data = d

\* A Folder constructed from a record without `id` (but with other
\* fields) has been visited, and key() on it has raised.
C12_Witness ==
    /\ lastKey.called
    /\ kindOf[lastKey.inst] = "folder"
    /\ DOMAIN data[lastKey.inst] = {"name"}
    /\ visits[lastKey.inst] = 1
    /\ lastKey.res.raised

\* ---------------------------------------------- crawl properties, continued
\* C13: the task handed to visitor.dispatch for a non-leaf child c of r
\* traverses, whenever it runs, exactly that child c, with the ancestor
\* chain ancestors + [r].
C13_TaskBoundToChild ==
    \A f \in DOMAIN inv :
        inv[f].via = "dispatch" =>
            /\ inv[f].self = inv[f].madeFor
            /\ inv[f].stack =
                 Append(inv[ParentInv(inv[f].madeFor)].stack,
                        ParentInst(inv[f].madeFor))

\* C15: a resource's chain is unset until the traversal visits it and is
\* attached at most once: accept runs at most once on an instance, so its
\* iterators call the client's listing at most once per iterator kind.
C15_AttachedAtMostOnce ==
    \A i \in insts :
        /\ stackOf[i].isNone <=> visits[i] = 0
        /\ Cardinality(InvsOf(i)) <= 1
        /\ \A y \in 1..Len(Contains(kindOf[i])) :
             Cardinality({c \in listCalls :
                            InstOfInv(c[1]) = i /\ c[2] = y}) <= 1

\* The records of the tree below the root: every project of the
\* organization, the Cloud SQL instances of every enumerable project, and
\* every folder have a visited instance.
TreeVisited ==
    /\ \A n \in 1..Len(projects) :
         \E i \in insts :
            /\ ParentInst(i) = Root /\ kindOf[i] = "project"
            /\ data[i] = projects[n] /\ visits[i] > 0
            /\ Enumerable(projects[n]) =>
                 \A m \in 1..Len(sqls) :
                    \E c \in ChildrenOf(i) :
                        data[c] = sqls[m] /\ visits[c] > 0
    /\ \A n \in 1..Len(folders) :
         \E i \in insts :
            /\ ParentInst(i) = Root /\ kindOf[i] = "folder"
            /\ data[i] = folders[n] /\ visits[i] > 0

\* Every accept call has returned with its iterators exhausted and every
\* resource reachable from the root through enumerable parents has been
\* visited.
Complete ==
    /\ \A f \in DOMAIN inv : inv[f].status = "returned"
    /\ visits[Root] > 0
    /\ TreeVisited

\* The scheduling C17 assumes: every call that can go on does, and the
\* dispatcher runs every task it holds.
FairSpec == Spec /\ WF_vars(Next)

\* Every crawl comes to rest: no call is running and no task is held.
Terminates == <>Quiescent

\* C17: for a client that raises no error and a dispatcher that runs
\* every task, the crawl eventually reaches a state where every accept
\* call has returned, no task is pending, and every resource reachable
\* from the root through enumerable parents has been visited.
C17_TerminatesComplete ==
    (failing = {}) => <>(Quiescent /\ Complete)

\* C18: the chain of every visited non-root resource c is the chain of
\* the resource r whose iterator yielded it, followed by r: parent() of c
\* is r, the chain is as long as c is deep, starts at the root, holds
\* exactly c's ancestors in order (nothing of another branch or crawl),
\* and all of them have been visited.
C18_AncestorChain ==
    \A g \in DOMAIN inv :
        LET c == inv[g].self
            chain == stackOf[c].items
        IN /\ ~stackOf[c].isNone
           /\ chain = inv[g].stack
           /\ c = Root => chain = <<>>
           /\ c # Root =>
                /\ chain = Append(stackOf[ParentInst(c)].items, ParentInst(c))
                /\ ParentCall(c) = Returns(ParentInst(c))
                /\ Len(chain) = Len(c) \div 3
                /\ chain[1] = Root
                /\ \A k \in 1..Len(chain) :
                     /\ chain[k] = SubSeq(c, 1, 3 * (k - 1))
                     /\ visits[chain[k]] > 0

\* Grandchildren of the root in two different branches have been
\* visited, one of the branches by a task that ran later.
C18_Witness ==
    \E c \in insts, d \in insts :
        /\ Len(c) = 6 /\ Len(d) = 6
        /\ ParentInst(c) # ParentInst(d)
        /\ visits[c] > 0 /\ visits[d] > 0
        /\ DOMAIN threads # {Root}

\* ------------------------------------------------ immediate dispatch only
\* The crawl with a visitor whose dispatch calls every task before it
\* returns; the visitor's visit appends the resource's key to its log.
Logged(i, k, d) ==
    /\ visitLog' = Append(visitLog, Key(k, d))
    /\ UNCHANGED <<policyVars, acalls, lastKey>>

SyncNext ==
    \/ StartCrawl /\ Logged(Root, kindOf[Root], data[Root])
    \/ \E t \in DOMAIN threads :
         YieldInline(t)
           /\ Logged(NextChild(Top(t)), NextKind(Top(t)), NextData(Top(t)))
    \/ \E t \in DOMAIN threads :
         YieldDispatchNow(t)
           /\ Logged(NextChild(Top(t)), NextKind(Top(t)), NextData(Top(t)))
    \/ \E t \in DOMAIN threads : Exhaust(t) /\ UNCHANGED restVars
    \/ \E t \in DOMAIN threads : ListingRaises(t) /\ UNCHANGED restVars

SyncSpec == Init /\ [][SyncNext]_vars

\* The depth-first pre-order of the client's tree, by key: the
\* organization, every project followed by its Cloud SQL instances (none
\* for a project that is not enumerable), then the folders.
RECURSIVE ProjectsFrom(_)
ProjectsFrom(n) ==
    IF n > Len(projects) THEN <<>>
    ELSE <<projects[n].projectId>>
         \o (IF projects[n].lifecycleState = "DELETE_REQUESTED"
             THEN <<>>
             ELSE [m \in 1..Len(sqls) |-> sqls[m].name])
         \o ProjectsFrom(n + 1)

ExpectedPreOrder ==
    <<OrgName>> \o ProjectsFrom(1) \o [m \in 1..Len(folders) |-> folders[m].id]

\* C14: when dispatch runs each task immediately, the visits made so far
\* are an initial part of the depth-first pre-order of the tree (iterator
\* kinds in declared order, projects before folders, children in yield
\* order), and all of it once a crawl without client errors has ended.
C14_DepthFirstPreOrder ==
    /\ Len(visitLog) <= Len(ExpectedPreOrder)
    /\ visitLog = SubSeq(ExpectedPreOrder, 1, Len(visitLog))
    /\ (Quiescent /\ failing = {}) => visitLog = ExpectedPreOrder

\* A crawl of two active projects with Cloud SQL instances and a folder
\* has ended.
C14_Witness ==
    /\ Quiescent
    /\ Len(projects) = 2 /\ Len(sqls) > 0 /\ Len(folders) > 0
    /\ \A n \in 1..Len(projects) : Enumerable(projects[n])
    /\ Len(visitLog) = 3 + 2 * Len(sqls) + Len(folders)

\* ------------------------------------------- accessor calls from threads
\* The wrapper of cached() run by the threads of a visitor that calls the
\* accessors of one instance from several threads: hasattr, the decorated
\* method and setattr are separate steps, and the wrapper takes no lock.
Idle == [pc |-> "idle", inst |-> NoInst, acc |-> "", val |-> ""]

ConcInit == PolicyWorld /\ acalls = [t \in 1..MaxThreads |-> Idle]

\* Thread t calls instance.<acc>(client) and gets as far as hasattr: an
\* undecorated accessor or a populated slot returns at once.
ConcCall(t, i, acc) ==
    /\ acalls[t].pc = "idle"
    /\ ncalls < MaxCalls
    /\ ncalls' = ncalls + 1
    /\ LET fld == CachedField(kindOf[i], acc) IN
       IF fld = "" \/ fld \in DOMAIN attrs[i]
       THEN /\ lastCall' =
                 [inst |-> i, acc |-> acc,
                  res |-> Accessor(i, acc, "None").res, called |-> FALSE,
                  hadCache |-> fld \in DOMAIN attrs[i]]
            /\ UNCHANGED acalls
       ELSE /\ acalls' = [acalls EXCEPT ![t] =
                            [pc |-> "checked", inst |-> i, acc |-> acc,
                             val |-> ""]]
            /\ UNCHANGED lastCall
    /\ UNCHANGED <<crawlVars, attrs, fetched, lastKey, visitLog>>

\* Thread t, having found the slot empty, runs the decorated method; an
\* error leaves the wrapper.
ConcFetch(t, outcome) ==
    /\ acalls[t].pc = "checked"
    /\ LET i == acalls[t].inst
           acc == acalls[t].acc
           b == Body(i, acc, outcome)
       IN /\ fetched' = IF b.called
                        THEN [fetched EXCEPT ![i][acc] = Append(@, outcome)]
                        ELSE fetched
          /\ IF b.res.raised
             THEN /\ acalls' = [acalls EXCEPT ![t] = Idle]
                  /\ lastCall' = [inst |-> i, acc |-> acc, res |-> b.res,
                                  called |-> b.called, hadCache |-> FALSE]
             ELSE /\ acalls' = [acalls EXCEPT ![t] =
                                  [@ EXCEPT !.pc = "fetched",
                                            !.val = b.res.val]]
                  /\ UNCHANGED lastCall
    /\ UNCHANGED <<crawlVars, attrs, ncalls, lastKey, visitLog>>

\* Thread t stores the result with setattr and returns it.
ConcStore(t) ==
    /\ acalls[t].pc = "fetched"
    /\ LET i == acalls[t].inst
           acc == acalls[t].acc
           fld == CachedField(kindOf[i], acc)
       IN /\ attrs' = [attrs EXCEPT ![i] =
                         [k \in DOMAIN @ \cup {fld} |->
                            IF k = fld THEN acalls[t].val ELSE @[k]]]
          /\ lastCall' = [inst |-> i, acc |-> acc,
                          res |-> PReturns(acalls[t].val),
                          called |-> TRUE, hadCache |-> FALSE]
    /\ acalls' = [acalls EXCEPT ![t] = Idle]
    /\ UNCHANGED <<crawlVars, fetched, ncalls, lastKey, visitLog>>

ConcNext ==
    \/ \E t \in 1..MaxThreads, i \in DOMAIN attrs, acc \in Accessors :
         ConcCall(t, i, acc)
    \/ \E t \in 1..MaxThreads, outcome \in ClientOutcomes :
         ConcFetch(t, outcome)
    \/ \E t \in 1..MaxThreads : ConcStore(t)

ConcSpec == ConcInit /\ [][ConcNext]_vars

\* C16: a memoized policy field, once populated, never changes value,
\* also when accessor calls of several threads on one instance interleave
\* between the cache check and the cache store, and the client is called
\* at most once per successful population.
C16_PopulatedNeverChanges ==
    [][\A i \in DOMAIN attrs, acc \in Accessors :
         LET fld == CachedField(kindOf[i], acc) IN
         fld # "" =>
            /\ fld \in DOMAIN attrs[i]
               => /\ fld \in DOMAIN attrs'[i]
                  /\ attrs'[i][fld] = attrs[i][fld]
            /\ OKs(fetched'[i][acc]) <= 1]_vars
====
